---- MODULE Spec2Model ----
(***************************************************************************)
(* Surface-Immersion-4D: the per-genus invariant evaluators of the         *)
(* StatTest scripts and the batch drivers that run them over a genus range *)
(* and accumulate interaction_terms / total_invariants.                    *)
(*                                                                         *)
(* Numbers.  A real value is an exact rational [n, d] in lowest terms with *)
(* d > 0 (rounding of binary floating point is not modelled); the float    *)
(* infinity is [n |-> 1, d |-> 0].  The symbolic values of the rigorous    *)
(* scripts (sqrt(pi*genus), log(genus+1)) are kept as the expressions the  *)
(* code builds: a rational coefficient/summand and the argument of the     *)
(* sqrt or log.                                                            *)
(*                                                                         *)
(* Arithmetic.  The scripts import their arithmetic from the environment,  *)
(* so what happens when a factorial or power leaves the representable      *)
(* range is not fixed by the source.  The model runs each script under     *)
(* every outcome the environment can produce:                              *)
(*   "exact"  arbitrary precision, nothing leaves the range;               *)
(*   "inf"    a value beyond FloatMax becomes the float infinity;          *)
(*   "raise"  a value beyond FloatMax raises OverflowError.                *)
(* FloatMax is the largest representable float scaled down so that the     *)
(* factorials of the modelled genus range cross it.                        *)
(***************************************************************************)
EXTENDS Integers, Sequences, FiniteSets, TLC

\* ---------------------------------------------------------------- bounds
\* Largest genus_max a run is configured with (120 in the scripts).
MaxGenus == 8

\* Largest representable float magnitude of the "inf" and "raise" builds.
FloatMax == 5000

\* ------------------------------------------------------ rational numbers
RECURSIVE GCD(_, _)
GCD(a, b) ==
    IF b = 0 THEN a ELSE GCD(b, a % b)

Abs(x) ==
    IF x < 0 THEN -x ELSE x

\* The rational n/d (d # 0) in lowest terms with a positive denominator.
Rat(n, d) ==
    LET g == GCD(Abs(n), Abs(d))
        s == IF d < 0 THEN -1 ELSE 1
    IN  [n |-> s * (n \div g), d |-> s * (d \div g)]

FromInt(i) ==
    [n |-> i, d |-> 1]

Inf ==
    [n |-> 1, d |-> 0]

IsInf(x) ==
    x.d = 0

RAdd(a, b) ==
    Rat(a.n * b.d + b.n * a.d, a.d * b.d)

RMul(a, b) ==
    Rat(a.n * b.n, a.d * b.d)

\* a / b for b # 0; the callers raise ZeroDivisionError before dividing by 0.
RDiv(a, b) ==
    Rat(a.n * b.d, a.d * b.n)

Floor(a) ==
    a.n \div a.d

\* a <= b for finite rationals, compared by integer part and then by
\* fractional part so that no product leaves the integer range.
RLe(a, b) ==
    \/ Floor(a) < Floor(b)
    \/ /\ Floor(a) = Floor(b)
       /\ (a.n % a.d) * b.d <= (b.n % b.d) * a.d

\* a <= b where either side may be the float infinity.
Le(a, b) ==
    IF IsInf(b) THEN TRUE
    ELSE IF IsInf(a) THEN FALSE
    ELSE RLe(a, b)

\* The magnitude of the finite, non-negative value a exceeds the float range.
Exceeds(a) ==
    ~ RLe(a, FromInt(FloatMax))

RECURSIVE SumSeq(_)
SumSeq(s) ==
    IF s = <<>> THEN 0 ELSE Head(s) + SumSeq(Tail(s))

RECURSIVE Pow(_, _)
Pow(b, e) ==
    IF e <= 0 THEN 1 ELSE b * Pow(b, e - 1)

RECURSIVE factorial(_)
factorial(n) ==
    IF n <= 1 THEN 1 ELSE n * factorial(n - 1)

RECURSIVE binomial(_, _)
binomial(n, k) ==
    IF k = 0 THEN 1
    ELSE IF n < k THEN 0
    ELSE (binomial(n - 1, k - 1) * n) \div k

\* ------------------------------------------------------------ the state
VARIABLES
    script,             \* the script that runs: "StatTest2" .. "StatTest5"
    entry,              \* "script": the file is run from top to bottom;
                        \* "function": its evaluate_surfaces is applied directly
    arith,              \* the arithmetic of the run: "exact", "inf" or "raise"
    genus_max,          \* the configured last genus of the run
    pc,                 \* "main": before the script's last statement;
                        \* "loop": the driver iterates; "done": the loop has ended;
                        \* later positions are named after the pass that has run;
                        \* "aborted": an exception left the script
    genus,              \* the next genus the driver's loop hands to the evaluator
    calls,              \* the genus of every evaluator call so far, in call order
    interaction_terms,  \* the global list interaction_terms
    total_invariants,   \* the global list total_invariants
    classifications,    \* the bundles printed by classify_surface, in print order
    diagnostics,        \* the "skipping..." lines printed: [genus, error]
    results,            \* the list evaluate_surfaces builds (StatTest3)
    raised,             \* the exception that left the script, "none" so far
    test_log,           \* the PASS lines of the stratified tests: [group, genus]
    flagged             \* the genus values cross_theory_consistency has reported

vars ==
    <<script, entry, arith, genus_max, pc, genus, calls, interaction_terms,
      total_invariants, classifications, diagnostics, results, raised,
      test_log, flagged>>

Scripts ==
    {"StatTest2", "StatTest3", "StatTest4", "StatTest5"}

Arithmetics ==
    {"exact", "inf", "raise"}

\* How a script is started: StatTest4 and StatTest5 run their loop at module
\* level; the functions of StatTest3 can also be called without its final
\* statement.
Entries(s) ==
    IF s = "StatTest3" THEN {"script", "function"} ELSE {"script"}

\* ------------------------------------- the rigorous formulas (StatTest4/5)
homology_invariant(g, index) ==
    Pow(g, index) + binomial(g, index)

k_invariants_rigorous(g) ==
    [k \in 1..3 |-> homology_invariant(g, k - 1)]

whitehead_product_rigorous(g) ==
    Rat(g * (g - 1), 2)

tertiary_homotopy_rigorous(g) ==
    Pow(g, 2) + g

\* A first division by genus itself.
quantum_correction_denominators_by_genus(g) ==
    <<g, g + 2>>

\* The denominators of genus / (genus + 1) * (genus + 3) / (genus + 2),
\* in the order the divisions are made.
quantum_correction_denominators(g) ==
    <<g + 1, g + 2>>

quantum_correction(g) ==
    RDiv(RMul(RDiv(FromInt(g), FromInt(quantum_correction_denominators(g)[1])),
              FromInt(g + 3)),
         FromInt(quantum_correction_denominators(g)[2]))

donaldson_denominator(g) ==
    g + 1

calculate_donaldson_invariant(g) ==
    RDiv(FromInt(factorial(g)), FromInt(donaldson_denominator(g)))

\* 2**genus * sqrt(pi * genus), kept as coefficient and argument of the sqrt
\* in units of pi.
calculate_sw_invariant(g) ==
    [coef |-> Pow(2, g), sqrt_pi_times |-> g]

\* genus**3 - genus + log(genus + 1), kept as the integer summand and the
\* argument of the log.
instanton_correction_formula(g) ==
    [rat |-> Pow(g, 3) - g, log_arg |-> g + 1]

exotic_structure_formula(g) ==
    24 * g + Pow(g, 2)

calculate_sft_invariants(g) ==
    [i \in 1..3 |-> factorial(g + (i - 1))]

\* The Floer terms of the simple evaluator: 4 + 2 * i + genus // 3.
calculate_floer_homology_simple(g) ==
    [i \in 1..4 |-> 4 + 2 * (i - 1) + (g \div 3)]

calculate_floer_homology(g) ==
    [i \in 1..4 |-> g + 2 * (i - 1)]

calculate_higher_gw_invariants(g) ==
    [i \in 1..3 |-> 2 * g + 1 + 2 * (i - 1)]

interaction_term_denominator(g) ==
    g + 2

interaction_term_calculation(g) ==
    RDiv(FromInt(420 * (g + 1) * (g + 3)), FromInt(interaction_term_denominator(g)))

mirror_symmetry_denominator(g) ==
    g + 2

\* genus / (genus + 2) * log(genus + 1), kept as the rational coefficient and
\* the argument of the log.
calculate_mirror_symmetry_correction(g) ==
    [coef |-> RDiv(FromInt(g), FromInt(mirror_symmetry_denominator(g))),
     log_arg |-> g + 1]

k_theory_invariant_formula(g) ==
    Pow(g, 2) + 2 * g

\* x + y in the arithmetic ar: exact, or a float sum that saturates to
\* infinity beyond FloatMax.
FAdd(ar, x, y) ==
    IF IsInf(x) \/ IsInf(y) THEN Inf
    ELSE LET s == RAdd(x, y)
         IN  IF ar # "exact" /\ Exceeds(s) THEN Inf ELSE s

\* The integer i as an operand of a float sum in the arithmetic ar.
ToFloat(ar, i) ==
    IF ar = "inf" /\ Exceeds(FromInt(i)) THEN Inf ELSE FromInt(i)

\* The interaction term subtracted instead of added.
total_invariant_sum_minus(ar, sft, it, kt, ex) ==
    FAdd(ar, FAdd(ar, FAdd(ar, ToFloat(ar, SumSeq(sft)), RMul(FromInt(-1), it)),
                  FromInt(kt)),
         FromInt(ex))

\* The combination rule of the drafts that leave the K-theory invariant out.
total_invariant_sum_without_k_theory(ar, sft, it, kt, ex) ==
    FAdd(ar, FAdd(ar, ToFloat(ar, SumSeq(sft)), it), FromInt(ex))

\* sum(sft_invariants) + interaction_term + k_theory_invariant
\*     + exotic_structure_analysis, summed left to right.
total_invariant_sum(ar, sft, it, kt, ex) ==
    FAdd(ar, FAdd(ar, FAdd(ar, ToFloat(ar, SumSeq(sft)), it), FromInt(kt)),
         FromInt(ex))

\* The exception, if any, that evaluating genus g raises before the results
\* are stored, the sub-computations taken in the order classify_surface makes
\* them; "none" when every one of them returns.  A division by zero raises
\* ZeroDivisionError, factorial of a negative number and log or sqrt outside
\* their domain raise ValueError, and in the "raise" arithmetic a value that
\* leaves the float range raises OverflowError.
evaluation_fault(ar, g) ==
    IF \E i \in 1..2 : quantum_correction_denominators(g)[i] = 0
        THEN "ZeroDivisionError"
    ELSE IF g < 0
        THEN "ValueError"
    ELSE IF donaldson_denominator(g) = 0
        THEN "ZeroDivisionError"
    ELSE IF ar = "raise" /\ Exceeds(calculate_donaldson_invariant(g))
        THEN "OverflowError"
    ELSE IF calculate_sw_invariant(g).sqrt_pi_times < 0
        THEN "ValueError"
    ELSE IF ar = "raise" /\ Exceeds(FromInt(calculate_sw_invariant(g).coef))
        THEN "OverflowError"
    ELSE IF instanton_correction_formula(g).log_arg <= 0
        THEN "ValueError"
    ELSE IF interaction_term_denominator(g) = 0
        THEN "ZeroDivisionError"
    ELSE IF ar = "raise" /\ Exceeds(interaction_term_calculation(g))
        THEN "OverflowError"
    ELSE IF mirror_symmetry_denominator(g) = 0
        THEN "ZeroDivisionError"
    ELSE IF calculate_mirror_symmetry_correction(g).log_arg <= 0
        THEN "ValueError"
    ELSE IF ar = "raise" /\ Exceeds(FromInt(SumSeq(calculate_sft_invariants(g))))
        THEN "OverflowError"
    ELSE "none"

\* The local variables of classify_surface once every sub-computation has
\* returned: the InvariantBundle of genus g.
InvariantBundle(ar, g) ==
    [genus |-> g,
     k_invariants |-> k_invariants_rigorous(g),
     whitehead_product |-> whitehead_product_rigorous(g),
     tertiary_homotopy |-> tertiary_homotopy_rigorous(g),
     quantum_homotopy_correction |-> quantum_correction(g),
     donaldson |-> calculate_donaldson_invariant(g),
     sw_invariant |-> calculate_sw_invariant(g),
     instanton_correction |-> instanton_correction_formula(g),
     exotic_structure_analysis |-> exotic_structure_formula(g),
     sft_invariants |-> calculate_sft_invariants(g),
     floer_homology |-> calculate_floer_homology(g),
     higher_gw_invariants |-> calculate_higher_gw_invariants(g),
     interaction_term |-> interaction_term_calculation(g),
     mirror_symmetry_correction |-> calculate_mirror_symmetry_correction(g),
     k_theory_invariant |-> k_theory_invariant_formula(g),
     total_invariant |->
         total_invariant_sum(ar, calculate_sft_invariants(g),
                             interaction_term_calculation(g),
                             k_theory_invariant_formula(g),
                             exotic_structure_formula(g))]

\* A handler that forgets the overflow clause.
CaughtErrors_value_only ==
    {"ValueError"}

\* The exceptions the try block of StatTest5's classify_surface catches.
CaughtErrors ==
    {"OverflowError", "ValueError"}

\* A range that steps by 2.
NextGenus_step2(gn) ==
    gn + 2

\* range(0, genus_max + 1): the first genus and the genus after gn.
FirstGenus ==
    0

NextGenus(gn) ==
    gn + 1

\* The position of the driver's loop once genus gn has been handled.
AfterIteration(gn) ==
    IF NextGenus(gn) > genus_max THEN "done" ELSE "loop"

\* Results stored at the front of the lists instead of the end.
StoreResults_prepend(b) ==
    /\ interaction_terms' = <<b.interaction_term>> \o interaction_terms
    /\ total_invariants' = <<b.total_invariant>> \o total_invariants
    /\ classifications' = Append(classifications, b)

\* Lists created anew by every call instead of once per run.
StoreResults_fresh_lists(b) ==
    /\ interaction_terms' = <<b.interaction_term>>
    /\ total_invariants' = <<b.total_invariant>>
    /\ classifications' = Append(classifications, b)

\* Only the first of the two appends.
StoreResults_interaction_only(b) ==
    /\ interaction_terms' = Append(interaction_terms, b.interaction_term)
    /\ total_invariants' = total_invariants
    /\ classifications' = Append(classifications, b)

\* The two appends and the report of a genus whose evaluation returned.
StoreResults(b) ==
    /\ interaction_terms' = Append(interaction_terms, b.interaction_term)
    /\ total_invariants' = Append(total_invariants, b.total_invariant)
    /\ classifications' = Append(classifications, b)

\* ------------------------------------------------------------ StatTest5
\* One iteration of "for genus in genus_values: classify_surface(genus)"
\* with the try/except of the defensive variant.
ClassifySurface5 ==
    /\ script = "StatTest5"
    /\ pc = "loop"
    /\ genus <= genus_max
    /\ calls' = Append(calls, genus)
    /\ LET f == evaluation_fault(arith, genus)
       IN  IF f = "none"
               THEN /\ StoreResults(InvariantBundle(arith, genus))
                    /\ diagnostics' = diagnostics
                    /\ genus' = NextGenus(genus)
                    /\ pc' = AfterIteration(genus)
                    /\ raised' = raised
           ELSE IF f \in CaughtErrors
               THEN /\ diagnostics' = Append(diagnostics, [genus |-> genus, error |-> f])
                    /\ UNCHANGED <<interaction_terms, total_invariants, classifications>>
                    /\ genus' = NextGenus(genus)
                    /\ pc' = AfterIteration(genus)
                    /\ raised' = raised
           ELSE /\ pc' = "aborted"
                /\ raised' = f
                /\ UNCHANGED <<genus, interaction_terms, total_invariants,
                               classifications, diagnostics>>
    /\ UNCHANGED <<script, entry, arith, genus_max, results, test_log, flagged>>

\* ------------------------------------------ StatTest5: after the loop
\* The difference above which cross_theory_consistency reports a genus.
inconsistency_threshold ==
    100000

\* genus_values = range(0, genus_max + 1) as a sequence.
genus_values ==
    [i \in 1..(genus_max + 1) |-> i - 1]

\* abs(t - it) > inconsistency_threshold, as t > it + threshold or
\* it > t + threshold; inf - inf is nan, which compares False.
LargeInconsistency(t, it) ==
    IF IsInf(t) \/ IsInf(it)
        THEN ~ (IsInf(t) /\ IsInf(it))
    ELSE \/ ~ RLe(t, RAdd(it, FromInt(inconsistency_threshold)))
         \/ ~ RLe(it, RAdd(t, FromInt(inconsistency_threshold)))

\* The positions (from 0) at which cross_theory_consistency reads
\* total_invariants and interaction_terms: those of enumerate(genus_values).
CrossTheoryIndices ==
    0..(Len(genus_values) - 1)

\* The positions at which detect_extremes reads genus_values: those of
\* enumerate(total_invariants_np).
DetectExtremesIndices ==
    0..(Len(total_invariants) - 1)

\* The lengths of the x and y handed to np.polyfit and np.corrcoef.
RegressionLengths ==
    [x |-> Len(genus_values), y |-> Len(interaction_terms)]

\* The first position cross_theory_consistency cannot read, -1 if none.
FirstMissingIndex ==
    LET missing == {i \in CrossTheoryIndices :
                        i >= Len(total_invariants) \/ i >= Len(interaction_terms)}
    IN  IF missing = {} THEN -1
        ELSE CHOOSE i \in missing : \A j \in missing : i <= j

\* The statistics of lines 106-118 (no indexing) and the call of
\* cross_theory_consistency(): total_invariants[i] of a position that does
\* not exist raises IndexError, which nothing catches.
CrossTheoryConsistency5 ==
    /\ script = "StatTest5"
    /\ pc = "done"
    /\ LET stop == FirstMissingIndex
           visited == IF stop = -1 THEN Len(genus_values) ELSE stop
       IN  /\ flagged' = SelectSeq(SubSeq(genus_values, 1, visited),
                                   LAMBDA g : LargeInconsistency(total_invariants[g + 1],
                                                                 interaction_terms[g + 1]))
           /\ pc' = IF stop = -1 THEN "consistency_checked" ELSE "aborted"
           /\ raised' = IF stop = -1 THEN raised ELSE "IndexError"
    /\ UNCHANGED <<script, entry, arith, genus_max, genus, calls,
                   interaction_terms, total_invariants, classifications,
                   diagnostics, results, test_log>>

\* The call of detect_extremes(): genus_values[i] is read for the positions
\* of total_invariants_np whose value is extreme, so a position beyond
\* genus_values may or may not raise.
DetectExtremes5 ==
    /\ script = "StatTest5"
    /\ pc = "consistency_checked"
    /\ \E fault \in IF \A i \in DetectExtremesIndices : i < Len(genus_values)
                        THEN {"none"}
                    ELSE {"none", "IndexError"} :
           /\ pc' = IF fault = "none" THEN "extremes_checked" ELSE "aborted"
           /\ raised' = IF fault = "none" THEN raised ELSE fault
    /\ UNCHANGED <<script, entry, arith, genus_max, genus, calls,
                   interaction_terms, total_invariants, classifications,
                   diagnostics, results, test_log, flagged>>

\* np.polyfit(genus_values, interaction_terms_np, 1), np.corrcoef and the
\* summary: polyfit raises TypeError for an x and y of different lengths.
Regression5 ==
    /\ script = "StatTest5"
    /\ pc = "extremes_checked"
    /\ IF RegressionLengths.x = RegressionLengths.y
           THEN /\ pc' = "summarised"
                /\ raised' = raised
       ELSE /\ pc' = "aborted"
            /\ raised' = "TypeError"
    /\ UNCHANGED <<script, entry, arith, genus_max, genus, calls,
                   interaction_terms, total_invariants, classifications,
                   diagnostics, results, test_log, flagged>>

\* ------------------------------------------------------------ StatTest4
\* One iteration of the same loop without the try/except: an exception of
\* the evaluation leaves the script.
ClassifySurface4 ==
    /\ script = "StatTest4"
    /\ pc = "loop"
    /\ genus <= genus_max
    /\ calls' = Append(calls, genus)
    /\ LET f == evaluation_fault(arith, genus)
       IN  IF f = "none"
               THEN /\ StoreResults(InvariantBundle(arith, genus))
                    /\ genus' = NextGenus(genus)
                    /\ pc' = AfterIteration(genus)
                    /\ raised' = raised
           ELSE /\ pc' = "aborted"
                /\ raised' = f
                /\ UNCHANGED <<genus, interaction_terms, total_invariants,
                               classifications>>
    /\ UNCHANGED <<script, entry, arith, genus_max, diagnostics, results,
                   test_log, flagged>>

\* ------------------------------------------------------------ StatTest3
\* The denominators of (whitehead_product * genus) / (genus + 1)
\*     + genus**2 / (genus + 2).
postnikov_denominators(g) ==
    <<g + 1, g + 2>>

\* The Whitehead product of the rigorous scripts in the simple evaluator.
compute_postnikov_invariants_binomial(g) ==
    LET k_invariants == <<g, g + 1, g + 2>>
        whitehead_product == (g * (g - 1)) \div 2
        tertiary_homotopy == whitehead_product + g
    IN  [k_invariants |-> k_invariants,
         whitehead_product |-> whitehead_product,
         tertiary_homotopy |-> tertiary_homotopy,
         quantum_homotopy_correction |->
             RAdd(RDiv(FromInt(whitehead_product * g),
                       FromInt(postnikov_denominators(g)[1])),
                  RDiv(FromInt(Pow(g, 2)),
                       FromInt(postnikov_denominators(g)[2])))]

compute_postnikov_invariants_advanced(g) ==
    LET k_invariants == <<g, g + 1, g + 2>>
        whitehead_product == SumSeq(k_invariants)
        tertiary_homotopy == whitehead_product + g
    IN  [k_invariants |-> k_invariants,
         whitehead_product |-> whitehead_product,
         tertiary_homotopy |-> tertiary_homotopy,
         quantum_homotopy_correction |->
             RAdd(RDiv(FromInt(whitehead_product * g),
                       FromInt(postnikov_denominators(g)[1])),
                  RDiv(FromInt(Pow(g, 2)),
                       FromInt(postnikov_denominators(g)[2])))]

\* The exotic-structure formula of the rigorous scripts in the simple one.
compute_gauge_theory_invariants_rigorous_exotic(g) ==
    [donaldson |-> 2,
     sw_invariant |-> 12,
     instanton_correction |-> g + 1,
     exotic_structure_analysis |-> 24 * g + Pow(g, 2)]

compute_gauge_theory_invariants(g) ==
    LET sw_invariant == 12
        donaldson_invariant == 2
        instanton_correction == g + 1
    IN  [donaldson |-> donaldson_invariant,
         sw_invariant |-> sw_invariant,
         instanton_correction |-> instanton_correction,
         exotic_structure_analysis |->
             sw_invariant * donaldson_invariant * instanton_correction]

\* The unrefined formulas of StatTest2, with the refined genus scaling.
compute_sft_invariants_unrefined(g) ==
    LET gw_invariants == [i \in 1..3 |-> g + (i - 1)]
        floer_homology == [i \in 1..4 |-> 4 + (i - 1)]
        higher_gw_invariants == [i \in 1..3 |-> 2 * gw_invariants[i] + 3]
    IN  [SFT_invariants |-> gw_invariants,
         Floer_homology |-> floer_homology,
         higher_gw_invariants |-> higher_gw_invariants,
         interaction_term |->
             SumSeq(higher_gw_invariants) * SumSeq(floer_homology) * (g + 1)]

compute_sft_invariants_refined(g) ==
    LET gw_invariants == [i \in 1..3 |-> g + (i - 1) + (g \div 2)]
        floer_homology == [i \in 1..4 |-> 4 + 2 * (i - 1) + (g \div 3)]
        higher_gw_invariants == [i \in 1..3 |-> 2 * gw_invariants[i] + 3]
    IN  [SFT_invariants |-> gw_invariants,
         Floer_homology |-> floer_homology,
         higher_gw_invariants |-> higher_gw_invariants,
         interaction_term |->
             SumSeq(higher_gw_invariants) * SumSeq(floer_homology) * (g + 1)]

mirror_correction_denominator(g) ==
    g + 1

\* A numerator that is off by one: (genus**2 - 1) / (genus + 1).
compute_mirror_symmetry_correction_shifted(g) ==
    RDiv(FromInt(Pow(g, 2) - 1), FromInt(mirror_correction_denominator(g)))

compute_mirror_symmetry_correction(g) ==
    RDiv(FromInt(Pow(g, 2)), FromInt(mirror_correction_denominator(g)))

compute_k_theory_invariant(g) ==
    g + 2

\* The exception compute_total_invariant(g) raises, "none" when it returns.
compute_total_invariant_fault(g) ==
    IF \/ \E i \in 1..2 : postnikov_denominators(g)[i] = 0
       \/ mirror_correction_denominator(g) = 0
        THEN "ZeroDivisionError"
    ELSE "none"

compute_total_invariant(g) ==
    LET postnikov == compute_postnikov_invariants_advanced(g)
        gauge_theory == compute_gauge_theory_invariants(g)
        sft == compute_sft_invariants_refined(g)
        mirror_symmetry == compute_mirror_symmetry_correction(g)
        k_theory == compute_k_theory_invariant(g)
    IN  [Postnikov_Invariants |-> postnikov,
         Gauge_Theoretic_Invariants |-> gauge_theory,
         Symplectic_Field_Theory |-> sft,
         Mirror_Symmetry_Correction |-> mirror_symmetry,
         K_Theory_Invariant |-> k_theory,
         Total_Invariant |->
             RAdd(RAdd(RAdd(postnikov.quantum_homotopy_correction,
                            FromInt(sft.interaction_term)),
                       mirror_symmetry),
                  FromInt(k_theory))]

\* One iteration of the loop of evaluate_surfaces(genus_max).
EvaluateSurfaces3 ==
    /\ script = "StatTest3"
    /\ pc = "loop"
    /\ genus <= genus_max
    /\ calls' = Append(calls, genus)
    /\ IF compute_total_invariant_fault(genus) = "none"
           THEN /\ results' = Append(results, compute_total_invariant(genus))
                /\ genus' = NextGenus(genus)
                /\ pc' = AfterIteration(genus)
                /\ raised' = raised
       ELSE /\ pc' = "aborted"
            /\ raised' = compute_total_invariant_fault(genus)
            /\ UNCHANGED <<genus, results>>
    /\ UNCHANGED <<script, entry, arith, genus_max, interaction_terms,
                   total_invariants, classifications, diagnostics, test_log,
                   flagged>>

\* The expected SFT interaction terms for genus 0 to 3.
expected_sft_values ==
    <<420, 1176, 2772, 4992>>

\* The last genus the final statement of the script asks for.
stratified_max_genus ==
    3

\* The names the module binds with def before its final statement runs.
DefinedNames3 ==
    {"compute_postnikov_invariants_advanced", "compute_gauge_theory_invariants",
     "compute_sft_invariants_refined", "compute_mirror_symmetry_correction",
     "compute_k_theory_invariant", "compute_total_invariant",
     "evaluate_surfaces", "run_statistical_tests", "run_stratified_tests",
     "test_postnikov_invariants", "test_gauge_theory_invariants",
     "test_sft_invariants", "test_mirror_symmetry_correction",
     "test_k_theory_invariants"}

\* The name the final statement of the script calls.
EntryCallee ==
    "stratified_test_framework"

\* The final statement of the script: the call of EntryCallee with
\* stratified_max_genus and expected_sft_values.  A name that is not bound
\* raises NameError before any genus is evaluated.
RunFullEvaluation3 ==
    /\ script = "StatTest3"
    /\ pc = "main"
    /\ IF EntryCallee \in DefinedNames3
           THEN /\ pc' = "loop"
                /\ raised' = raised
       ELSE /\ pc' = "aborted"
            /\ raised' = "NameError"
    /\ UNCHANGED <<script, entry, arith, genus_max, genus, calls,
                   interaction_terms, total_invariants, classifications,
                   diagnostics, results, test_log, flagged>>

\* The test groups in the order run_stratified_tests calls them.
TestGroups ==
    <<"postnikov", "gauge_theory", "sft", "mirror_symmetry", "k_theory">>

\* What one iteration of a test group does with the result of genus g:
\* "PASS" when it prints its line, else the exception it raises.
test_outcome(group, result, g) ==
    CASE group = "postnikov" ->
             LET postnikov == result.Postnikov_Invariants
             IN  IF /\ SumSeq(postnikov.k_invariants) = postnikov.whitehead_product
                    /\ postnikov.tertiary_homotopy >= postnikov.whitehead_product
                     THEN "PASS"
                 ELSE "AssertionError"
      [] group = "gauge_theory" ->
             LET gauge_theory == result.Gauge_Theoretic_Invariants
             IN  IF gauge_theory.exotic_structure_analysis
                        = gauge_theory.sw_invariant * gauge_theory.donaldson
                              * gauge_theory.instanton_correction
                     THEN "PASS"
                 ELSE "AssertionError"
      [] group = "sft" ->
             IF g + 1 > Len(expected_sft_values)
                 THEN "IndexError"
             ELSE IF result.Symplectic_Field_Theory.interaction_term
                         = expected_sft_values[g + 1]
                 THEN "PASS"
             ELSE "AssertionError"
      [] group = "mirror_symmetry" ->
             IF result.Mirror_Symmetry_Correction
                    = RDiv(FromInt(Pow(g, 2)), FromInt(g + 1))
                 THEN "PASS"
             ELSE "AssertionError"
      [] group = "k_theory" ->
             IF result.K_Theory_Invariant = g + 2
                 THEN "PASS"
             ELSE "AssertionError"

\* The p-th check of run_stratified_tests(rs, expected_sft_values): every
\* group enumerates rs from genus 0.
StratifiedCheck(rs, p) ==
    [group |-> TestGroups[((p - 1) \div Len(rs)) + 1],
     genus |-> (p - 1) % Len(rs)]

StratifiedOutcome(rs, p) ==
    LET c == StratifiedCheck(rs, p)
    IN  test_outcome(c.group, rs[c.genus + 1], c.genus)

\* The first check that raises, 0 when every check passes.
FirstFailure(rs) ==
    LET bad == {p \in 1..(Len(TestGroups) * Len(rs)) :
                    StratifiedOutcome(rs, p) # "PASS"}
    IN  IF bad = {} THEN 0
        ELSE CHOOSE p \in bad : \A q \in bad : p <= q

\* run_stratified_tests(results, expected_sft_values) on the results of the
\* finished evaluation.
RunStratifiedTests3 ==
    /\ script = "StatTest3"
    /\ pc = "done"
    /\ LET ff == FirstFailure(results)
           passed == IF ff = 0 THEN Len(TestGroups) * Len(results) ELSE ff - 1
       IN  /\ test_log' = [p \in 1..passed |-> StratifiedCheck(results, p)]
           /\ pc' = IF ff = 0 THEN "tested" ELSE "aborted"
           /\ raised' = IF ff = 0 THEN raised ELSE StratifiedOutcome(results, ff)
    /\ UNCHANGED <<script, entry, arith, genus_max, genus, calls,
                   interaction_terms, total_invariants, classifications,
                   diagnostics, results, flagged>>

\* ------------------------------------------------------------ StatTest2
\* The last genus of "results = evaluate_surfaces(30)".
evaluate_surfaces_max_genus ==
    30

compute_sft_invariants(g) ==
    LET gw_invariants == [i \in 1..3 |-> g + (i - 1)]
        floer_homology == [i \in 1..4 |-> 4 + (i - 1)]
        higher_gw_invariants == [i \in 1..3 |-> 2 * gw_invariants[i] + 3]
    IN  [SFT_invariants |-> gw_invariants,
         Floer_homology |-> floer_homology,
         higher_gw_invariants |-> higher_gw_invariants,
         interaction_term |->
             SumSeq(higher_gw_invariants) * SumSeq(floer_homology) * g]

\* The total of StatTest3, which also adds the K-theory invariant genus + 2.
compute_total_invariant2_with_k_theory(g) ==
    LET postnikov == compute_postnikov_invariants_advanced(g)
        gauge_theory == compute_gauge_theory_invariants(g)
        sft == compute_sft_invariants(g)
        mirror_symmetry == compute_mirror_symmetry_correction(g)
    IN  [Postnikov_Invariants |-> postnikov,
         Gauge_Theoretic_Invariants |-> gauge_theory,
         Symplectic_Field_Theory |-> sft,
         Mirror_Symmetry_Correction |-> mirror_symmetry,
         Total_Invariant |->
             RAdd(RAdd(RAdd(postnikov.quantum_homotopy_correction,
                            FromInt(sft.interaction_term)),
                       mirror_symmetry),
                  FromInt(g + 2))]

\* compute_total_invariant of StatTest2.
compute_total_invariant2(g) ==
    LET postnikov == compute_postnikov_invariants_advanced(g)
        gauge_theory == compute_gauge_theory_invariants(g)
        sft == compute_sft_invariants(g)
        mirror_symmetry == compute_mirror_symmetry_correction(g)
    IN  [Postnikov_Invariants |-> postnikov,
         Gauge_Theoretic_Invariants |-> gauge_theory,
         Symplectic_Field_Theory |-> sft,
         Mirror_Symmetry_Correction |-> mirror_symmetry,
         Total_Invariant |->
             RAdd(RAdd(postnikov.quantum_homotopy_correction,
                       FromInt(sft.interaction_term)),
                  mirror_symmetry)]

\* One iteration of the loop of evaluate_surfaces(30) of StatTest2.
EvaluateSurfaces2 ==
    /\ script = "StatTest2"
    /\ pc = "loop"
    /\ genus <= genus_max
    /\ calls' = Append(calls, genus)
    /\ IF compute_total_invariant_fault(genus) = "none"
           THEN /\ results' = Append(results, compute_total_invariant2(genus))
                /\ genus' = NextGenus(genus)
                /\ pc' = AfterIteration(genus)
                /\ raised' = raised
       ELSE /\ pc' = "aborted"
            /\ raised' = compute_total_invariant_fault(genus)
            /\ UNCHANGED <<genus, results>>
    /\ UNCHANGED <<script, entry, arith, genus_max, interaction_terms,
                   total_invariants, classifications, diagnostics, test_log,
                   flagged>>

\* ------------------------------------------------------------ StatTest1
\* The numerator and denominator of each literal of the total_invariant array.
StatTest1_literals ==
    << <<0, 1>>, <<2795, 6>>, <<3589, 3>>, <<43821, 20>>, <<51748, 15>>,
       <<208855, 42>>, <<94635, 14>>, <<634361, 72>>, <<500648, 45>>,
       <<1507491, 110>>, <<546065, 33>>, <<3066085, 156>>, <<2095308, 91>>,
       <<5598671, 210>>, <<1833559, 60>>, <<9444465, 272>>, <<5989840, 153>>,
       <<14993371, 342>>, <<4635549, 95>>, <<22685981, 420>>,
       <<13743860, 231>> >>

\* total_invariant of StatTest1: the value of each quotient.
StatTest1_total_invariant ==
    [i \in 1..Len(StatTest1_literals) |->
        RDiv(FromInt(StatTest1_literals[i][1]), FromInt(StatTest1_literals[i][2]))]

\* genus = np.arange(0, 21) of StatTest1.
StatTest1_genus ==
    [i \in 1..21 |-> i - 1]

\* -------------------------------------------------------- specification
Init ==
    /\ script \in Scripts
    /\ arith \in Arithmetics
    /\ entry \in Entries(script)
    /\ genus_max \in (IF script = "StatTest2"
                          THEN {evaluate_surfaces_max_genus}
                      ELSE IF script = "StatTest3" /\ entry = "script"
                          THEN {stratified_max_genus}
                      ELSE 0..MaxGenus)
    /\ pc = (IF script = "StatTest3" /\ entry = "script" THEN "main" ELSE "loop")
    /\ genus = FirstGenus
    /\ calls = <<>>
    /\ interaction_terms = <<>>
    /\ total_invariants = <<>>
    /\ classifications = <<>>
    /\ diagnostics = <<>>
    /\ results = <<>>
    /\ raised = "none"
    /\ test_log = <<>>
    /\ flagged = <<>>

Next ==
    \/ ClassifySurface5
    \/ ClassifySurface4
    \/ EvaluateSurfaces3
    \/ EvaluateSurfaces2
    \/ RunFullEvaluation3
    \/ RunStratifiedTests3
    \/ CrossTheoryConsistency5
    \/ DetectExtremes5
    \/ Regression5

Spec ==
    Init /\ [][Next]_vars

\* ------------------------------------------------------------ the claims
BatchScripts ==
    {"StatTest4", "StatTest5"}

\* The evaluation of genus g fails: it raises instead of returning.
Fails(g) ==
    evaluation_fault(arith, g) # "none"

\* The genus values evaluated so far whose evaluation did not fail.
Succeeded ==
    SelectSeq(calls, LAMBDA g : ~ Fails(g))

C2_IndexIsGenus ==
    (script \in BatchScripts /\ pc = "done") =>
        /\ Len(interaction_terms) = Len(total_invariants)
        /\ \A i \in 1..Len(interaction_terms) :
               \E j \in 1..Len(classifications) :
                   /\ classifications[j].genus = i - 1
                   /\ classifications[j].interaction_term = interaction_terms[i]
                   /\ classifications[j].total_invariant = total_invariants[i]

\* C2 witness: a finished run that skipped a genus and kept at least two.
C2_Witness ==
    /\ script = "StatTest5"
    /\ pc = "done"
    /\ diagnostics # <<>>
    /\ Len(total_invariants) >= 2

\* C3: in the defensive driver an exception of the evaluation never leaves
\* the script; every genus that failed has its diagnostic line, printed in
\* genus order; after a failure the loop either goes on with the next genus
\* or has ended with every genus of 0..genus_max evaluated; and every genus
\* that did not fail has its results stored.
C3_SkipAndContinue ==
    script = "StatTest5" =>
        /\ raised \notin {"OverflowError", "ValueError"}
        /\ pc \in {"loop", "done"} => raised = "none"
        /\ diagnostics = SelectSeq([i \in 1..Len(calls) |->
                                       [genus |-> calls[i],
                                        error |-> evaluation_fault(arith, calls[i])]],
                                   LAMBDA d : d.error # "none")
        /\ diagnostics # <<>> =>
               \/ pc = "loop" /\ genus <= genus_max /\ ENABLED ClassifySurface5
               \/ pc # "loop" /\ Len(calls) = genus_max + 1
        /\ pc # "loop" =>
               \A g \in 0..genus_max :
                   ~ Fails(g) => \E j \in 1..Len(classifications) :
                                     classifications[j].genus = g

\* C3 witness: a finished run in which a genus failed, a later genus was
\* still evaluated, and the genus values that succeeded were stored.
C3_Witness ==
    /\ script = "StatTest5"
    /\ pc = "done"
    /\ Len(diagnostics) >= 2
    /\ diagnostics[1].genus < calls[Len(calls)]
    /\ classifications # <<>>

\* C4 as stated: in every evaluator the whitehead_product returned for a
\* genus is the sum of the k_invariants returned for it.
C4_WhiteheadIsSumEverywhere ==
    /\ \A i \in 1..Len(results) :
           results[i].Postnikov_Invariants.whitehead_product
               = SumSeq(results[i].Postnikov_Invariants.k_invariants)
    /\ \A j \in 1..Len(classifications) :
           classifications[j].whitehead_product
               = FromInt(SumSeq(classifications[j].k_invariants))

\* C4 (amended): the whitehead_product returned by
\* compute_postnikov_invariants_advanced is the sum of the k_invariants it
\* returns for that genus; the rigorous classify_surface returns
\* genus * (genus - 1) / 2 instead.
C4_WhiteheadIsSumSimpleVariant ==
    /\ \A i \in 1..Len(results) :
           results[i].Postnikov_Invariants.whitehead_product
               = SumSeq(results[i].Postnikov_Invariants.k_invariants)
    /\ \A j \in 1..Len(classifications) :
           LET g == classifications[j].genus
           IN  classifications[j].whitehead_product = Rat(g * (g - 1), 2)

\* C4 witness: the simple evaluator has returned results for genus 0, 1, 2.
C4_Witness ==
    /\ script = "StatTest3"
    /\ Len(results) >= 3

\* C5: in every result of compute_gauge_theory_invariants the
\* exotic_structure_analysis is sw_invariant * donaldson *
\* instanton_correction of the same result.
C5_ExoticIsProduct ==
    \A i \in 1..Len(results) :
        LET gt == results[i].Gauge_Theoretic_Invariants
        IN  gt.exotic_structure_analysis
                = gt.sw_invariant * gt.donaldson * gt.instanton_correction

\* C5 witness: gauge-theory results exist for genus 0..3.
C5_Witness ==
    /\ script = "StatTest3"
    /\ Len(results) >= 4
    /\ results[4].Gauge_Theoretic_Invariants.instanton_correction = 4

\* C6: the refined SFT interaction term of genus 0, 1, 2, 3 is exactly 420,
\* 1176, 2772, 4992, and it is sum(higher_gw_invariants) *
\* sum(floer_homology) * (genus + 1) of the lists returned with it.
C6_SftExpectedValues ==
    script = "StatTest3" =>
        \A i \in 1..Len(results) :
            LET sft == results[i].Symplectic_Field_Theory
            IN  /\ sft.interaction_term
                       = SumSeq(sft.higher_gw_invariants)
                             * SumSeq(sft.Floer_homology) * i
                /\ i <= Len(expected_sft_values) =>
                       sft.interaction_term = expected_sft_values[i]

\* C6 witness: the terms of genus 0..3 have all been computed.
C6_Witness ==
    /\ script = "StatTest3"
    /\ Len(results) >= Len(expected_sft_values)
    /\ results[4].Symplectic_Field_Theory.interaction_term = 4992

\* C7: under the rigorous formulas total_invariant(g) <= total_invariant(g+1)
\* for every genus g >= 1 (entry g+1 of the list is the value of genus g).
C7_TotalMonotoneFromGenus1 ==
    script \in BatchScripts =>
        \A i \in 2..(Len(total_invariants) - 1) :
            Le(total_invariants[i], total_invariants[i + 1])

\* C7 witness: exact totals of genus 1, 2 and 3 are stored.
C7_Witness ==
    /\ script \in BatchScripts
    /\ arith = "exact"
    /\ Len(total_invariants) >= 4
    /\ total_invariants[3] # total_invariants[4]

\* C8: the total_invariant reported and stored for a genus is the sum of its
\* sft_invariants plus its interaction_term, k_theory_invariant and
\* exotic_structure_analysis, and nothing else; where that sum leaves the
\* float range the stored value is the float infinity.
C8_TotalIsSumOfFour ==
    \A j \in 1..Len(classifications) :
        LET c == classifications[j]
            sft == FromInt(SumSeq(c.sft_invariants))
        IN  /\ total_invariants[j] = c.total_invariant
            /\ IF IsInf(c.total_invariant)
                   THEN arith # "exact" /\ Exceeds(sft)
               ELSE c.total_invariant
                        = RAdd(RAdd(RAdd(sft, c.interaction_term),
                                    FromInt(c.k_theory_invariant)),
                               FromInt(c.exotic_structure_analysis))

\* C8 witness: a total whose other components are non-zero has been stored.
C8_Witness ==
    /\ script = "StatTest5"
    /\ Len(classifications) >= 3
    /\ ~ IsInf(classifications[3].total_invariant)
    /\ classifications[3].mirror_symmetry_correction.coef.n # 0
    /\ classifications[3].quantum_homotopy_correction.n # 0

\* C9: no evaluation of a driver run meets an arithmetic domain fault: no
\* ZeroDivisionError or ValueError is raised or reported, every denominator
\* is genus + 1 or genus + 2 and non-zero, and the arguments of log and sqrt
\* are non-negative (that of log is positive).
C9_NoDomainFault ==
    /\ raised \notin {"ZeroDivisionError", "ValueError"}
    /\ \A i \in 1..Len(diagnostics) : diagnostics[i].error # "ValueError"
    /\ \A i \in 1..Len(calls) :
           LET g == calls[i]
               dens == IF script \in BatchScripts
                           THEN quantum_correction_denominators(g)
                                    \o <<donaldson_denominator(g),
                                         interaction_term_denominator(g),
                                         mirror_symmetry_denominator(g)>>
                       ELSE postnikov_denominators(g)
                                \o <<mirror_correction_denominator(g)>>
           IN  /\ g >= 0
               /\ \A k \in 1..Len(dens) : dens[k] \in {g + 1, g + 2} /\ dens[k] # 0
               /\ script \in BatchScripts =>
                      /\ instanton_correction_formula(g).log_arg > 0
                      /\ calculate_mirror_symmetry_correction(g).log_arg > 0
                      /\ calculate_sw_invariant(g).sqrt_pi_times >= 0

\* C9 witness: a driver run that evaluated genus 0 and went to its end.
C9_Witness ==
    /\ script = "StatTest5"
    /\ pc = "done"
    /\ Len(calls) >= 2
    /\ calls[1] = 0
    /\ Len(classifications) = Len(calls)

\* The sum of sft_invariants or the donaldson value of genus g lies beyond
\* the range of the run's number representation.
OutOfRange(g) ==
    /\ arith # "exact"
    /\ \/ Exceeds(FromInt(SumSeq(calculate_sft_invariants(g))))
       \/ Exceeds(calculate_donaldson_invariant(g))

\* C11: a genus whose donaldson or sft_invariants leave the representable
\* range raises an overflow error (reported for that genus by the defensive
\* driver) and stores nothing, so no entry of the result sequences is
\* infinite.
C11_OverflowRaisesNoInfinity ==
    script \in BatchScripts =>
        /\ \A i \in 1..Len(total_invariants) : ~ IsInf(total_invariants[i])
        /\ \A i \in 1..Len(interaction_terms) : ~ IsInf(interaction_terms[i])
        /\ \A i \in 1..Len(calls) :
               OutOfRange(calls[i]) =>
                   /\ \A j \in 1..Len(classifications) :
                          classifications[j].genus # calls[i]
                   /\ \/ raised = "OverflowError"
                      \/ \E k \in 1..Len(diagnostics) :
                             diagnostics[k] = [genus |-> calls[i],
                                               error |-> "OverflowError"]

\* C12: mirror_symmetry_correction is 0 at genus 0 and finite and
\* non-negative for every genus: the rational genus**2 / (genus + 1) of the
\* simple evaluator, and the product genus / (genus + 2) * log(genus + 1) of
\* the rigorous one (a coefficient >= 0 times the log of a number >= 1, the
\* coefficient 0 and the log argument 1 at genus 0).
C12_MirrorZeroAtZeroNonNegative ==
    /\ \A i \in 1..Len(results) :
           LET m == results[i].Mirror_Symmetry_Correction
           IN  /\ ~ IsInf(m)
               /\ m.n >= 0
               /\ i = 1 => m = FromInt(0)
    /\ \A j \in 1..Len(classifications) :
           LET m == classifications[j].mirror_symmetry_correction
           IN  /\ ~ IsInf(m.coef)
               /\ m.coef.n >= 0
               /\ m.log_arg >= 1
               /\ classifications[j].genus = 0 =>
                      m.coef = FromInt(0) /\ m.log_arg = 1

\* C12 witness: the correction of genus 0 is 0 and that of genus 2 is
\* positive.
C12_Witness ==
    /\ script = "StatTest3"
    /\ Len(results) >= 3
    /\ results[1].Mirror_Symmetry_Correction = FromInt(0)
    /\ results[3].Mirror_Symmetry_Correction.n > 0

UnchangedOrAppended(old, new) ==
    /\ Len(new) \in {Len(old), Len(old) + 1}
    /\ SubSeq(new, 1, Len(old)) = old

\* C14: every step leaves interaction_terms and total_invariants unchanged
\* or appends exactly one element to the end of each; entries already stored
\* are never modified, reordered or removed.
C14_AppendOnly ==
    [][/\ UnchangedOrAppended(interaction_terms, interaction_terms')
       /\ UnchangedOrAppended(total_invariants, total_invariants')
       /\ Len(interaction_terms') - Len(interaction_terms)
              = Len(total_invariants') - Len(total_invariants)]_vars

\* C14 witness: two calls have appended and a later call has left the
\* sequences as they were.
C14_Witness ==
    /\ script = "StatTest5"
    /\ Len(interaction_terms) >= 2
    /\ Len(total_invariants) >= 2
    /\ diagnostics # <<>>

\* The checks run_stratified_tests prints for n results when none raises.
FullTestLog(n) ==
    [p \in 1..(Len(TestGroups) * n) |->
        [group |-> TestGroups[((p - 1) \div n) + 1], genus |-> (p - 1) % n]]

\* C15: running StatTest3 as a script raises nothing, and when it ends it has
\* evaluated genus 0, 1, 2, 3 and run the Postnikov, gauge-theory, SFT,
\* mirror-symmetry and K-theory test groups in that order over the results.
C15_EntryPointRunsAllGroups ==
    (script = "StatTest3" /\ entry = "script") =>
        /\ raised = "none"
        /\ pc \notin {"main", "loop", "done"} =>
               /\ pc = "tested"
               /\ calls = <<0, 1, 2, 3>>
               /\ test_log = FullTestLog(stratified_max_genus + 1)

\* C16: in every state of the batch driver interaction_terms and
\* total_invariants have the same length, and that length is the number of
\* genus values evaluated so far whose evaluation did not fail.
C16_EqualLengthsCountSucceeded ==
    script \in BatchScripts =>
        /\ Len(interaction_terms) = Len(total_invariants)
        /\ Len(total_invariants) = Len(Succeeded)
        /\ Len(total_invariants)
               = Cardinality({i \in 1..Len(calls) : ~ Fails(calls[i])})

\* Some genus has been stored and a later one has failed without extending
\* either sequence.
C16_Witness ==
    /\ script \in BatchScripts
    /\ Len(total_invariants) > 0
    /\ \E i \in 1..Len(calls) : Fails(calls[i])
    /\ Len(calls) > Len(interaction_terms)

\* C17: once the loop of the defensive driver has ended, every position
\* cross_theory_consistency visits exists in total_invariants and in
\* interaction_terms, every position detect_extremes visits exists in
\* genus_values, the regression pairs sequences of equal length, and no pass
\* raises IndexError or a length error, also when genus values were skipped.
C17_PassesReadExistingIndices ==
    (script = "StatTest5" /\ pc # "loop") =>
        /\ \A i \in CrossTheoryIndices :
               i < Len(total_invariants) /\ i < Len(interaction_terms)
        /\ \A i \in DetectExtremesIndices : i < Len(genus_values)
        /\ RegressionLengths.x = RegressionLengths.y
        /\ raised \notin {"IndexError", "TypeError"}

\* C18: StatTest1 lists 21 values, one per genus of 0..20, and the value
\* listed for a genus is the Total Invariant compute_total_invariant of
\* StatTest2 returns for it as an exact rational: quantum_homotopy_correction
\* + interaction_term + mirror_symmetry, with interaction_term
\* = sum(2 * (genus + i) + 3 for i in 0..2) * 22 * genus.
C18_StatTest1DataIsStatTest2Total ==
    /\ Len(StatTest1_total_invariant) = Len(StatTest1_genus)
    /\ script = "StatTest2" =>
           \A i \in 1..Len(results) :
               LET g == i - 1
                   r == results[i]
               IN  /\ r.Symplectic_Field_Theory.interaction_term
                          = SumSeq([k \in 1..3 |-> 2 * (g + (k - 1)) + 3]) * 22 * g
                   /\ r.Total_Invariant
                          = RAdd(RAdd(r.Postnikov_Invariants.quantum_homotopy_correction,
                                      FromInt(r.Symplectic_Field_Theory.interaction_term)),
                                 r.Mirror_Symmetry_Correction)
                   /\ i <= Len(StatTest1_genus) =>
                          /\ StatTest1_genus[i] = calls[i]
                          /\ r.Total_Invariant = StatTest1_total_invariant[i]

\* C18 witness: StatTest2 has evaluated every genus of 0..20, the last of
\* them to 13743860/231.
C18_Witness ==
    /\ script = "StatTest2"
    /\ Len(results) >= Len(StatTest1_genus)
    /\ results[21].Total_Invariant = [n |-> 13743860, d |-> 231]

====================================================================
